---- MODULE Spec2Model ----
(***************************************************************************)
(* The tunnelling HTTP server of cmd_server.go.                            *)
(*                                                                         *)
(* serveCmd.HTTPHandler runs once per inbound request, each invocation in  *)
(* its own goroutine, all of them sharing the one MQTT client p.mq.  The   *)
(* handler derives the client name from the Host header, dumps the request *)
(* to text, publishes it on "clients/<name>", subscribes to the same       *)
(* topic with a callback that stores any "X-"-prefixed payload into the    *)
(* local `response`, polls that variable once a second for at most ten     *)
(* seconds, unsubscribes, and writes either the stored reply or a canned   *)
(* timeout document onto the hijacked connection.                          *)
(*                                                                         *)
(* Bytes are modelled as their integer codes, strings as sequences of      *)
(* bytes.  The subscription callback runs on the MQTT client's goroutine   *)
(* and stores into `response` without synchronisation; the model lets the  *)
(* store land between any two steps of the handler, so that every read of  *)
(* `response` sees either the value before or the value after a delivery.  *)
(***************************************************************************)
EXTENDS Integers, Sequences, FiniteSets, TLC

\* ------------------------------------------------------------------------
\* Bounds of the model
\* ------------------------------------------------------------------------

\* Longest MQTT payload the environment delivers.
MaxMsgLen == 3

\* Longest Host header an inbound request carries.
MaxHostLen == 1

\* Number of messages the broker delivers during one run.
MaxDeliveries == 2

\* Number of calls (dump, bus calls, hijack) that fail during one run.
MaxFaults == 1

\* Longest argument (Host header, payload, request method) on which the
\* string functions of the handler are tried in isolation.
MaxArgLen == 4

\* Longest request method tried in isolation.
MaxMethodLen == 3

\* The concurrent handler invocations.
Reqs == {1, 2}

\* Bytes that occur in payloads: "X", "-".
MsgBytes == {88, 45}

\* Bytes that occur in Host headers: "a", ".".
HostBytes == {97, 46}

\* Bytes of the arguments tried in isolation: "X", "-", ".", "a".
ArgBytes == {88, 45, 46, 97}

\* Bytes of a request method: "X", "-", "G" (all HTTP token characters).
MethodBytes == {88, 45, 71}

\* ------------------------------------------------------------------------
\* Program constants and pure helpers
\* ------------------------------------------------------------------------

\* The number of one-second sleeps of the wait loop (count < 10).
MaxPolls == 10

\* "X-", the prefix that marks a payload as a reply.
Sigil == <<88, 45>>

\* "." as used by strings.Contains / strings.Split on the host.
Dot == 46

\* "clients/", the topic namespace.
TopicPrefix == <<99, 108, 105, 101, 110, 116, 115, 47>>

\* The raw-string literal assigned to response when no reply was stored:
\* "HTTP/1.0 200 OK\nContent-type: text/html; charset=UTF-8\n
\*  Connection: close\n\n<!DOCTYPE html>\n<html>\n<body>\n<p>We didn't
\*  receive a reply from the remote host, despite waiting 10 seconds.</p>\n
\*  </body>\n</html>\n"
TimeoutDoc ==
  <<
     72, 84, 84, 80, 47, 49, 46, 48, 32, 50, 48, 48, 32, 79, 75, 10,
     67, 111, 110, 116, 101, 110, 116, 45, 116, 121, 112, 101, 58, 32, 116, 101,
     120, 116, 47, 104, 116, 109, 108, 59, 32, 99, 104, 97, 114, 115, 101, 116,
     61, 85, 84, 70, 45, 56, 10, 67, 111, 110, 110, 101, 99, 116, 105, 111,
     110, 58, 32, 99, 108, 111, 115, 101, 10, 10, 60, 33, 68, 79, 67, 84,
     89, 80, 69, 32, 104, 116, 109, 108, 62, 10, 60, 104, 116, 109, 108, 62,
     10, 60, 98, 111, 100, 121, 62, 10, 60, 112, 62, 87, 101, 32, 100, 105,
     100, 110, 39, 116, 32, 114, 101, 99, 101, 105, 118, 101, 32, 97, 32, 114,
     101, 112, 108, 121, 32, 102, 114, 111, 109, 32, 116, 104, 101, 32, 114, 101,
     109, 111, 116, 101, 32, 104, 111, 115, 116, 44, 32, 100, 101, 115, 112, 105,
     116, 101, 32, 119, 97, 105, 116, 105, 110, 103, 32, 49, 48, 32, 115, 101,
     99, 111, 110, 100, 115, 46, 60, 47, 112, 62, 10, 60, 47, 98, 111, 100,
     121, 62, 10, 60, 47, 104, 116, 109, 108, 62, 10 >>

\* All byte strings over S of length at most n.
SeqsUpTo(S, n) == UNION {[1..k -> S] : k \in 0..n}

Messages == SeqsUpTo(MsgBytes, MaxMsgLen)

Hosts == SeqsUpTo(HostBytes, MaxHostLen)

\* strings.HasPrefix(s, p)
HasPrefix(s, p) == Len(s) >= Len(p) /\ SubSeq(s, 1, Len(p)) = p

\* strings.Contains(s, ".") for a one-byte separator
Contains(s, b) == \E i \in 1..Len(s) : s[i] = b

\* A split that keeps everything before the last separator.
FirstLabelUpToLast(s, b) ==
  LET i == CHOOSE k \in 1..Len(s) :
             s[k] = b /\ \A j \in (k+1)..Len(s) : s[j] # b
  IN  SubSeq(s, 1, i - 1)

\* strings.Split(s, ".")[0]: the text before the first separator.
FirstLabel(s, b) ==
  LET i == CHOOSE k \in 1..Len(s) :
             s[k] = b /\ \A j \in 1..(k-1) : s[j] # b
  IN  SubSeq(s, 1, i - 1)

\* host := r.Host; if strings.Contains(host, ".") { host = Split(host,".")[0] }
ClientName(h) == IF Contains(h, Dot) THEN FirstLabel(h, Dot) ELSE h

\* A topic that leaves the client name out.
TopicShared(name) == TopicPrefix

\* "clients/" + host
Topic(name) == TopicPrefix \o name

\* The body of the subscription callback: the new value of `response`
\* after payload msg was handed to the callback.
Callback(resp, msg) ==
  IF HasPrefix(msg, Sigil) THEN SubSeq(msg, 3, Len(msg)) ELSE resp

\* A wait loop that polls once more than the budget.
WaitCondOnePollLong(resp, cnt) == Len(resp) = 0 /\ cnt <= MaxPolls

\* A wait loop that gives up one poll early.
WaitCondOnePollShort(resp, cnt) == Len(resp) = 0 /\ cnt < MaxPolls - 1

\* The condition of the wait loop: len(response) == 0 && count < 10.
WaitCond(resp, cnt) == Len(resp) = 0 /\ cnt < MaxPolls

\* A handler that settles on the timeout document and never looks at the
\* reply slot again.
FinalResponseDiscarding(resp) == TimeoutDoc

\* The text handed to the hijacked connection: the stored reply, or the
\* timeout document when the reply slot is empty.
FinalResponse(resp) == IF Len(resp) = 0 THEN TimeoutDoc ELSE resp

\* ------------------------------------------------------------------------
\* State
\* ------------------------------------------------------------------------

VARIABLES
  pc,         \* pc[r]: where invocation r of HTTPHandler stands
  host,       \* host[r]: the local `host` (the client name after the split)
  response,   \* response[r]: the local `response`, shared with the callback
  count,      \* count[r]: the local `count` of the wait loop
  routes,     \* invocations whose callback p.mq currently holds for a topic
  delivered,  \* number of payloads the broker has delivered so far
  faults,     \* number of calls that have failed so far
  outcome,    \* outcome[r]: what each fallible call of r returned
  ops,        \* ops[r]: the bus and connection calls r made, in order
  normalOut,  \* normalOut[r]: responses written through the ResponseWriter
  rawOut,     \* rawOut[r]: byte strings written to the hijacked connection
  heard,      \* heard[r]: the replies handed to r's callback: how many,
              \* the first of them, whether it came within the budget,
              \* the client names on whose topics they were published,
              \* and whether a reply was published on r's topic between
              \* r's publish and r's subscribe
  seen,       \* seen[r]: the value of `response` read by the emptiness test
  used,       \* used[r]: the topics r has passed to the bus calls
  call        \* one string function of the handler applied in isolation

vars == <<pc, host, response, count, routes, delivered, faults, outcome, ops,
          normalOut, rawOut, heard, seen, used, call>>

NoReply == [n |-> 0, first |-> <<>>, inBudget |-> FALSE, from |-> {},
            early |-> FALSE]

NoOutcome == [dump |-> "none", pub |-> "none", sub |-> "none",
              wait |-> "none", unsub |-> "none", hijack |-> "none"]

\* The invocations whose callback is registered for the topic of name n.
OnTopic(n) == {q \in routes : Topic(host[q]) = Topic(n)}

\* A client that keeps one callback per subscriber.
AddRouteKeepingOthers(rs, r) == rs \cup {r}

\* Subscribe on the shared client p.mq with the topic of r: the client holds
\* one callback per topic string, and the registration replaces the one the
\* topic had.
AddRoute(rs, r) == (rs \ OnTopic(host[r])) \cup {r}

\* An unsubscribe that drops the caller's own callback only.
DeleteRouteOwnOnly(rs, r) == rs \ {r}

\* Unsubscribe on the shared client p.mq with the topic of r: the topic's
\* callback goes, whichever invocation registered it.
DeleteRoute(rs, r) == rs \ OnTopic(host[r])

\* A handler whose callback is in place from its publish on.
ListenersFromPublish(n) ==
  {q \in Reqs : /\ Topic(host[q]) = Topic(n)
                /\ \/ q \in routes /\ pc[q] # "done"
                   \/ pc[q] = "subscribe"}

\* The invocations whose callback runs when a payload arrives on the topic
\* of name n: those registered for it that have not returned.
Listeners(n) == {q \in OnTopic(n) : pc[q] # "done"}

\* The invocations that have published to the topic of name n and have not
\* subscribed yet.
Early(n) == {q \in Reqs : pc[q] = "subscribe" /\ Topic(host[q]) = Topic(n)}

\* A call returns result x; every result but "ok" is a failure.
Returns(x) ==
  /\ x # "ok" => faults < MaxFaults
  /\ faults' = IF x = "ok" THEN faults ELSE faults + 1

\* No function is being tried in isolation.
NoCall == [fn |-> "none", arg |-> <<>>, slot |-> <<>>, res |-> <<>>,
           applied |-> FALSE]

HandlerInit ==
  /\ pc = [r \in Reqs |-> "idle"]
  /\ host = [r \in Reqs |-> <<>>]
  /\ response = [r \in Reqs |-> <<>>]
  /\ count = [r \in Reqs |-> 0]
  /\ routes = {}
  /\ delivered = 0
  /\ faults = 0
  /\ outcome = [r \in Reqs |-> NoOutcome]
  /\ ops = [r \in Reqs |-> <<>>]
  /\ normalOut = [r \in Reqs |-> <<>>]
  /\ rawOut = [r \in Reqs |-> <<>>]
  /\ heard = [r \in Reqs |-> NoReply]
  /\ seen = [r \in Reqs |-> <<>>]
  /\ used = [r \in Reqs |-> {}]

Init == HandlerInit /\ call = NoCall

\* ------------------------------------------------------------------------
\* The handler, one action per step
\* ------------------------------------------------------------------------

\* A handler that does not look at the error of the dump.
DumpFailedIgnored(d) == FALSE

\* if err != nil, after httputil.DumpRequest
DumpFailed(d) == d # "ok"

\* A handler that reports the failed dump and carries on.
AfterDumpErrorFallThrough == "publish"

\* The `return` that ends the branch reporting a failed dump.
AfterDumpError == "done"

\* A handler that does not look at the error of the subscription.
SubscribeFailedIgnored(s) == FALSE

\* if sub_token.Error() != nil
SubscribeFailed(s) == s # "ok"

\* A handler that unsubscribes only when the wait timed out.
AfterWaitSkipping(resp) == IF Len(resp) # 0 THEN "check" ELSE "unsubscribe"

\* Where the handler goes once the wait loop is left: straight on to the
\* unsubscribe, whatever the loop saw.
AfterWait(resp) == "unsubscribe"

\* A handler that returns when Unsubscribe fails.
AfterUnsubscribeAborting(u) == IF u = "ok" THEN "check" ELSE "done"

\* Where the handler goes after Unsubscribe returned u: a failure is
\* printed and the handler falls through to the emptiness test.
AfterUnsubscribe(u) == "check"

\* A handler that writes to the connection whatever the takeover returned.
TakeoverFailedIgnored(t) == FALSE

\* !ok of the type assertion, or err != nil of hj.Hijack()
TakeoverFailed(t) == t # "ok"

\* http.StatusInternalServerError, the status of both http.Error calls
HijackErrorStatus == 500

\* The status a fmt.Fprintf on a fresh ResponseWriter implies.
ImplicitStatus == 200

\* A request with Host header h arrives; the handler takes the client name
\* from it and dumps the request (result d).  Invocations are numbered in
\* the order in which they start.  A failed dump is reported
\* with fmt.Fprintf on the ResponseWriter (implicit status 200) and ends
\* the invocation.
Begin(r, h, d) ==
  /\ pc[r] = "idle"
  /\ Returns(d)
  /\ \A q \in Reqs : q < r => pc[q] # "idle"
  /\ host' = [host EXCEPT ![r] = ClientName(h)]
  /\ outcome' = [outcome EXCEPT ![r].dump = d]
  /\ IF DumpFailed(d)
       THEN /\ normalOut' = [normalOut EXCEPT
                 ![r] = Append(@, [status |-> ImplicitStatus, body |-> "dump"])]
            /\ ops' = [ops EXCEPT ![r] = @ \o <<"Dump", "Respond">>]
            /\ pc' = [pc EXCEPT ![r] = AfterDumpError]
       ELSE /\ normalOut' = normalOut
            /\ ops' = [ops EXCEPT ![r] = Append(@, "Dump")]
            /\ pc' = [pc EXCEPT ![r] = "publish"]
  /\ UNCHANGED <<call, used, response, count, routes, delivered, rawOut, heard, seen>>

\* p.mq.Publish("clients/"+host, 0, false, requestDump); token.Wait().
\* The token's error is never read; response := "" follows.
Publish(r, p) ==
  /\ pc[r] = "publish"
  /\ Returns(p)
  /\ outcome' = [outcome EXCEPT ![r].pub = p]
  /\ ops' = [ops EXCEPT ![r] = Append(@, "Publish")]
  /\ response' = [response EXCEPT ![r] = <<>>]
  /\ pc' = [pc EXCEPT ![r] = "subscribe"]
  /\ used' = [used EXCEPT ![r] = @ \cup {Topic(host[r])}]
  /\ UNCHANGED <<call, host, count, routes, delivered, normalOut, rawOut, heard,
                 seen>>

\* p.mq.Subscribe("clients/"+host, 0, callback); sub_token.Wait().
\* All invocations subscribe through the one client p.mq, which routes by
\* topic string and holds one callback per topic: a registration replaces
\* the callback the topic had.  The call may fail before or after the
\* callback was registered.  On error the handler reports it with
\* fmt.Fprintf and returns; otherwise count := 0 and the wait loop starts.
Subscribe(r, s) ==
  /\ pc[r] = "subscribe"
  /\ Returns(s)
  /\ outcome' = [outcome EXCEPT ![r].sub = s]
  /\ routes' = IF s \in {"ok", "errInstalled"}
                 THEN AddRoute(routes, r)
                 ELSE routes
  /\ used' = [used EXCEPT ![r] = @ \cup {Topic(host[r])}]
  /\ IF SubscribeFailed(s)
       THEN /\ count' = count
            /\ ops' = [ops EXCEPT ![r] = @ \o <<"Subscribe", "Respond">>]
            /\ normalOut' = [normalOut EXCEPT
                 ![r] = Append(@, [status |-> ImplicitStatus,
                                   body |-> "subscribe"])]
            /\ pc' = [pc EXCEPT ![r] = "done"]
       ELSE /\ count' = [count EXCEPT ![r] = 0]
            /\ ops' = [ops EXCEPT ![r] = Append(@, "Subscribe")]
            /\ normalOut' = normalOut
            /\ pc' = [pc EXCEPT ![r] = "wait"]
  /\ UNCHANGED <<call, host, response, delivered, rawOut, heard, seen>>

\* One iteration of the wait loop: the condition held, the handler slept
\* one second and incremented count.
Poll(r) ==
  /\ pc[r] = "wait"
  /\ WaitCond(response[r], count[r])
  /\ count' = [count EXCEPT ![r] = @ + 1]
  /\ ops' = [ops EXCEPT ![r] = IF count[r] = 0 THEN Append(@, "Wait") ELSE @]
  /\ UNCHANGED <<call, used, faults, pc, host, response, routes, delivered, outcome, normalOut,
                 rawOut, heard, seen>>

\* The loop condition is false: the handler leaves the loop, with a reply
\* in the slot ("fulfilled") or without one ("timedOut").
ExitWait(r) ==
  /\ pc[r] = "wait"
  /\ ~WaitCond(response[r], count[r])
  /\ pc' = [pc EXCEPT ![r] = AfterWait(response[r])]
  /\ outcome' = [outcome EXCEPT
       ![r].wait = IF Len(response[r]) = 0 THEN "timedOut" ELSE "fulfilled"]
  /\ UNCHANGED <<call, used, faults, host, response, count, routes, delivered, ops,
                 normalOut, rawOut, heard, seen>>

\* p.mq.Unsubscribe("clients/"+host); unsub_token.Wait().  The call drops
\* the topic's callback, unless it fails; an error is only printed.  The
\* handler never reads count again, and the model forgets it here.
Unsubscribe(r, u) ==
  /\ pc[r] = "unsubscribe"
  /\ Returns(u)
  /\ outcome' = [outcome EXCEPT ![r].unsub = u]
  /\ routes' = IF u = "ok" THEN DeleteRoute(routes, r) ELSE routes
  /\ used' = [used EXCEPT ![r] = @ \cup {Topic(host[r])}]
  /\ ops' = [ops EXCEPT ![r] = Append(@, "Unsubscribe")]
  /\ count' = [count EXCEPT ![r] = 0]
  /\ pc' = [pc EXCEPT ![r] = AfterUnsubscribe(u)]
  /\ UNCHANGED <<call, host, response, delivered, normalOut, rawOut, heard, seen>>

\* if len(response) == 0 { response = <timeout document> }
CheckReply(r) ==
  /\ pc[r] = "check"
  /\ seen' = [seen EXCEPT ![r] = response[r]]
  /\ response' = [response EXCEPT ![r] = FinalResponse(@)]
  /\ pc' = [pc EXCEPT ![r] = "relay"]
  /\ UNCHANGED <<call, used, faults, host, count, routes, delivered, outcome, ops, normalOut,
                 rawOut, heard>>

\* The type assertion w.(http.Hijacker) and hj.Hijack() (result t).  When
\* either fails the handler answers with http.Error (status 500); otherwise
\* it prints response to the connection, flushes and closes it.
Relay(r, t) ==
  /\ pc[r] = "relay"
  /\ Returns(t)
  /\ outcome' = [outcome EXCEPT ![r].hijack = t]
  /\ IF TakeoverFailed(t)
       THEN /\ rawOut' = rawOut
            /\ ops' = [ops EXCEPT ![r] =
                 @ \o (IF t = "notHijacker" THEN <<"Respond">>
                                            ELSE <<"Hijack", "Respond">>)]
            /\ normalOut' = [normalOut EXCEPT
                 ![r] = Append(@, [status |-> HijackErrorStatus, body |-> t])]
       ELSE /\ rawOut' = [rawOut EXCEPT ![r] = Append(@, response[r])]
            /\ ops' = [ops EXCEPT ![r] = @ \o <<"Hijack", "Write", "Close">>]
            /\ normalOut' = normalOut
  /\ pc' = [pc EXCEPT ![r] = "done"]
  /\ UNCHANGED <<call, used, host, response, count, routes, delivered, heard, seen>>

\* ------------------------------------------------------------------------
\* The broker
\* ------------------------------------------------------------------------

\* Whether invocation r still has polls left when a payload reaches it.
InBudget(r) == pc[r] = "wait" /\ count[r] < MaxPolls

\* A payload m is published on the topic of client name n (QoS 0, not
\* retained): the MQTT client runs the callback registered for the topic,
\* on its own goroutine, and an invocation that has published and not yet
\* subscribed misses the payload for good.  A callback whose invocation has
\* returned stores into a variable nobody reads any more; the model leaves
\* that store out.
Deliver(n, m) ==
  /\ delivered < MaxDeliveries
  /\ Listeners(n) \cup Early(n) # {}
  /\ delivered' = delivered + 1
  /\ response' = [r \in Reqs |->
       IF r \in Listeners(n) THEN Callback(response[r], m) ELSE response[r]]
  /\ heard' = [r \in Reqs |->
       IF HasPrefix(m, Sigil)
         THEN IF r \in Listeners(n)
                THEN IF heard[r].n = 0
                       THEN [heard[r] EXCEPT
                               !.n = 1, !.first = SubSeq(m, 3, Len(m)),
                               !.inBudget = InBudget(r), !.from = @ \cup {n}]
                       ELSE [heard[r] EXCEPT !.n = @ + 1,
                                             !.from = @ \cup {n}]
                ELSE IF r \in Early(n)
                       THEN [heard[r] EXCEPT !.early = TRUE]
                       ELSE heard[r]
         ELSE heard[r]]
  /\ UNCHANGED <<call, used, faults, pc, host, count, routes, outcome, ops,
                 normalOut, rawOut, seen>>

Names == {ClientName(h) : h \in Hosts}

Next ==
  \/ \E r \in Reqs, h \in Hosts, d \in {"ok", "err"} : Begin(r, h, d)
  \/ \E r \in Reqs, p \in {"ok", "err"} : Publish(r, p)
  \/ \E r \in Reqs, s \in {"ok", "errInstalled", "errNotInstalled"} :
       Subscribe(r, s)
  \/ \E r \in Reqs : Poll(r)
  \/ \E r \in Reqs : ExitWait(r)
  \/ \E r \in Reqs, u \in {"ok", "err"} : Unsubscribe(r, u)
  \/ \E r \in Reqs : CheckReply(r)
  \/ \E r \in Reqs, t \in {"ok", "notHijacker", "hijackErr"} : Relay(r, t)
  \/ \E n \in Names, m \in Messages : Deliver(n, m)

Spec == Init /\ [][Next]_vars

\* The steps invocation r takes by itself once the request has arrived.
HandlerStep(r) ==
  \/ \E p \in {"ok", "err"} : Publish(r, p)
  \/ \E s \in {"ok", "errInstalled", "errNotInstalled"} : Subscribe(r, s)
  \/ Poll(r)
  \/ ExitWait(r)
  \/ \E u \in {"ok", "err"} : Unsubscribe(r, u)
  \/ CheckReply(r)
  \/ \E t \in {"ok", "notHijacker", "hijackErr"} : Relay(r, t)

\* The invocation that starts first.
Solo == {r \in Reqs : \A q \in Reqs : r <= q}

\* One invocation on its own, and a broker that may hand any payload to its
\* callback at any moment: all that other invocations can do to it is
\* covered by this, since they reach it through its reply slot alone.
NextSolo ==
  \/ \E r \in Solo, h \in Hosts, d \in {"ok", "err"} : Begin(r, h, d)
  \/ \E r \in Solo : HandlerStep(r)
  \/ \E n \in Names, m \in Messages : Deliver(n, m)

\* The invocation runs on a goroutine of its own that the scheduler keeps
\* running: each bus call returns and each sleep ends.
SpecFair ==
  Init /\ [][NextSolo]_vars /\ \A r \in Solo : WF_vars(HandlerStep(r))

\* ------------------------------------------------------------------------
\* The string functions of the handler, applied in isolation
\* ------------------------------------------------------------------------

Args == SeqsUpTo(ArgBytes, MaxArgLen)

\* What the reply slot may hold when a payload arrives: nothing, or "a".
Slots == {<<>>, <<97>>}

\* Request methods the HTTP server hands to the handler: non-empty tokens.
Methods == SeqsUpTo(MethodBytes, MaxMethodLen) \ {<<>>}

\* " / HTTP/1.1\r\nHost: a\r\n\r\n": what follows the method in the dump of
\* a request for "/" on host "a" with no body.
RequestTail ==
  <<32, 47, 32, 72, 84, 84, 80, 47, 49, 46, 49, 13, 10,
    72, 111, 115, 116, 58, 32, 97, 13, 10, 13, 10>>

\* httputil.DumpRequest(r, true): the request line, which starts with the
\* method as received, then headers and body; published unprefixed.
Dump(method) == method \o RequestTail

Try(fn, arg, slot) ==
  [fn |-> fn, arg |-> arg, slot |-> slot, res |-> <<>>, applied |-> FALSE]

\* The handler has not started; one function and its argument are chosen.
InitPure ==
  /\ HandlerInit
  /\ call \in {Try("split", h, <<>>) : h \in Args}
             \cup {Try("callback", m, sl) : m \in Args, sl \in Slots}
             \cup {Try("echo", m, sl) : m \in Methods, sl \in Slots}

\* The host split of the handler on Host header call.arg.
ApplySplit ==
  /\ call.fn = "split" /\ ~call.applied
  /\ call' = [call EXCEPT !.res = ClientName(call.arg), !.applied = TRUE]
  /\ UNCHANGED <<pc, host, response, count, routes, delivered, faults,
                 outcome, ops, normalOut, rawOut, heard, seen, used>>

\* The subscription callback on payload call.arg, the reply slot holding
\* call.slot.
ApplyCallback ==
  /\ call.fn = "callback" /\ ~call.applied
  /\ call' = [call EXCEPT !.res = Callback(call.slot, call.arg),
                          !.applied = TRUE]
  /\ UNCHANGED <<pc, host, response, count, routes, delivered, faults,
                 outcome, ops, normalOut, rawOut, heard, seen, used>>

\* The subscription callback on the handler's own published payload, the
\* dump of a request with method call.arg.
ApplyEcho ==
  /\ call.fn = "echo" /\ ~call.applied
  /\ call' = [call EXCEPT !.res = Callback(call.slot, Dump(call.arg)),
                          !.applied = TRUE]
  /\ UNCHANGED <<pc, host, response, count, routes, delivered, faults,
                 outcome, ops, normalOut, rawOut, heard, seen, used>>

NextPure ==
  \/ ApplySplit
  \/ ApplyCallback
  \/ ApplyEcho

SpecPure == InitPure /\ [][NextPure]_vars

\* ------------------------------------------------------------------------
\* Vocabulary of the properties
\* ------------------------------------------------------------------------

Done(r) == pc[r] = "done"

\* How often invocation r made call op.
CountOp(r, op) == Cardinality({i \in DOMAIN ops[r] : ops[r][i] = op})

Did(r, op) == CountOp(r, op) > 0

\* Call a precedes every call b in the record of r.
Precedes(r, a, b) ==
  \A j \in DOMAIN ops[r] :
    ops[r][j] = b => \E i \in 1..(j-1) : ops[r][i] = a

\* The subscription of r was installed and reported no error.
Subscribed(r) == outcome[r].sub = "ok"

\* The connection of r was taken over.
TookOver(r) == outcome[r].hijack = "ok"

\* The callback stored into the reply slot of r after the emptiness test.
LateStore(r) ==
  pc[r] \in {"relay", "done"} /\ response[r] # FinalResponse(seen[r])

\* "HTTP/1.0 200 OK\n", the status line of the timeout document.
TimeoutStatusLine ==
  <<72, 84, 84, 80, 47, 49, 46, 48, 32, 50, 48, 48, 32, 79, 75, 10>>

\* "Connection: close\n"
ConnectionClose ==
  <<67, 111, 110, 110, 101, 99, 116, 105, 111, 110, 58, 32,
    99, 108, 111, 115, 101, 10>>

\* "<!DOCTYPE html>\n"
Doctype ==
  <<60, 33, 68, 79, 67, 84, 89, 80, 69, 32, 104, 116, 109, 108, 62, 10>>

\* Byte string t occurs in s.
Occurs(t, s) ==
  \E i \in 1..(Len(s) - Len(t) + 1) : SubSeq(s, i, i + Len(t) - 1) = t

\* ------------------------------------------------------------------------
\* C1..C10
\* ------------------------------------------------------------------------

\* C1: when a request is the only one in flight, none of its calls fails,
\* and exactly one reply "X-" ++ b reaches its callback, while the request
\* is in the wait loop with polls left, then the bytes written to the
\* taken-over connection are exactly b, and the timeout document is not
\* sent.
C1_ReplyRelayedVerbatim ==
  \A r \in Reqs :
    ( /\ Done(r) /\ TookOver(r)
      /\ \A q \in Reqs \ {r} : pc[q] = "idle"
      /\ outcome[r].pub = "ok" /\ outcome[r].unsub = "ok"
      /\ heard[r].n = 1 /\ heard[r].inBudget )
    => rawOut[r] = <<heard[r].first>> /\ rawOut[r] # <<TimeoutDoc>>

\* C2: a request whose callback never received a reply leaves the wait loop
\* after exactly 10 polls, never polls more than 10 times, and once its
\* connection is taken over writes the literal timeout document to it: an
\* HTTP/1.0 200 OK response with Connection: close and an HTML body.
C2_TimeoutAfterTenPolls ==
  \A r \in Reqs :
    /\ count[r] <= MaxPolls
    /\ (pc[r] = "unsubscribe" /\ heard[r].n = 0) => count[r] = MaxPolls
    /\ (pc[r] \in {"check", "relay", "done"} /\ Subscribed(r)
          /\ heard[r].n = 0)
         => CountOp(r, "Wait") = 1
    /\ (Done(r) /\ TookOver(r) /\ heard[r].n = 0)
         => /\ rawOut[r] = <<TimeoutDoc>>
            /\ HasPrefix(rawOut[r][1], TimeoutStatusLine)
            /\ Occurs(ConnectionClose, rawOut[r][1])
            /\ Occurs(Doctype, rawOut[r][1])

C2_Witness ==
  \E r \in Reqs :
    /\ Done(r) /\ TookOver(r) /\ heard[r].n = 0
    /\ rawOut[r] = <<TimeoutDoc>>

\* C3: a request whose subscription succeeded calls Unsubscribe exactly
\* once before it returns, whether the wait ended with a reply or without,
\* and the call precedes every write to the caller.
C3_UnsubscribeOnce ==
  \A r \in Reqs :
    Subscribed(r) =>
      /\ CountOp(r, "Unsubscribe") <= 1
      /\ Done(r) => CountOp(r, "Unsubscribe") = 1
      /\ (rawOut[r] # <<>> \/ normalOut[r] # <<>>)
           => CountOp(r, "Unsubscribe") = 1
      /\ Precedes(r, "Unsubscribe", "Hijack")
      /\ Precedes(r, "Unsubscribe", "Write")
      /\ Precedes(r, "Unsubscribe", "Respond")

\* One request relayed a reply and another relayed the timeout document.
C3_Witness ==
  \E r1, r2 \in Reqs :
    /\ Done(r1) /\ Subscribed(r1) /\ TookOver(r1) /\ seen[r1] # <<>>
    /\ Done(r2) /\ Subscribed(r2) /\ TookOver(r2) /\ seen[r2] = <<>>
    /\ CountOp(r1, "Unsubscribe") = 1 /\ CountOp(r2, "Unsubscribe") = 1

\* C4: a request whose Subscribe call reported an error after the callback
\* was installed has called Unsubscribe exactly once when it returns, and
\* its callback is no longer registered.
C4_UnsubscribeAfterFailedSubscribe ==
  \A r \in Reqs :
    (Done(r) /\ outcome[r].sub = "errInstalled")
      => CountOp(r, "Unsubscribe") = 1 /\ r \notin routes

\* C5: a request whose Publish failed never subscribes, never waits and
\* never takes over the connection.
C5_PublishFailureAborts ==
  \A r \in Reqs :
    outcome[r].pub = "err"
      => /\ ~Did(r, "Subscribe")
         /\ ~Did(r, "Wait")
         /\ ~Did(r, "Hijack")
         /\ pc[r] \notin {"wait", "unsubscribe", "check", "relay"}

\* C6: a request whose Subscribe call reported an error has written one
\* error message through the ResponseWriter and returned: it never waited,
\* never touched the connection, and sent neither a reply nor the timeout
\* document.
C6_SubscribeErrorSurfaced ==
  \A r \in Reqs :
    outcome[r].sub \in {"errInstalled", "errNotInstalled"}
      => /\ Done(r)
         /\ ops[r] = <<"Dump", "Publish", "Subscribe", "Respond">>
         /\ normalOut[r] = <<[status |-> ImplicitStatus, body |-> "subscribe"]>>
         /\ rawOut[r] = <<>>
         /\ count[r] = 0
         /\ outcome[r].hijack = "none"

C6_Witness ==
  \E r \in Reqs :
    /\ outcome[r].sub = "errInstalled" /\ Done(r)
    /\ normalOut[r] = <<[status |-> ImplicitStatus, body |-> "subscribe"]>>

\* C7: a request whose dump failed has written one error message through
\* the ResponseWriter and returned without any bus call and without
\* touching the connection.
C7_DumpErrorShortCircuits ==
  \A r \in Reqs :
    outcome[r].dump = "err"
      => /\ Done(r)
         /\ ops[r] = <<"Dump", "Respond">>
         /\ normalOut[r] = <<[status |-> ImplicitStatus, body |-> "dump"]>>
         /\ rawOut[r] = <<>>
         /\ r \notin routes
         /\ outcome[r].pub = "none" /\ outcome[r].sub = "none"
         /\ outcome[r].unsub = "none" /\ outcome[r].hijack = "none"

C7_Witness ==
  \E r \in Reqs :
    /\ outcome[r].dump = "err" /\ Done(r)
    /\ normalOut[r] = <<[status |-> ImplicitStatus, body |-> "dump"]>>

C9_TakeoverFailureIs500 ==
  \A r \in Reqs :
    outcome[r].hijack \in {"notHijacker", "hijackErr"}
      => /\ Done(r)
         /\ normalOut[r] =
              <<[status |-> 500, body |-> outcome[r].hijack]>>
         /\ rawOut[r] = <<>>
         /\ ~Did(r, "Write")

\* A failed Hijack call of a request that held a reply.
C9_Witness ==
  \E r \in Reqs :
    /\ Done(r) /\ outcome[r].hijack = "hijackErr"
    /\ normalOut[r] = <<[status |-> 500, body |-> "hijackErr"]>>
    /\ seen[r] # <<>> /\ seen[r] = heard[r].first

\* C10: no request publishes or answers more than once, and a request that
\* has returned has answered exactly once: with one error response through
\* the ResponseWriter, or with one raw write of the timeout document or of
\* the reply held by the reply slot.
C10_ResolvedExactlyOnce ==
  \A r \in Reqs :
    /\ CountOp(r, "Publish") <= 1
    /\ Len(normalOut[r]) + Len(rawOut[r]) <= 1
    /\ Done(r) =>
         /\ Len(normalOut[r]) + Len(rawOut[r]) = 1
         /\ Len(rawOut[r]) = 1 =>
              \/ rawOut[r][1] = TimeoutDoc /\ seen[r] = <<>>
              \/ rawOut[r][1] = seen[r] /\ seen[r] # <<>>
              \/ LateStore(r) /\ heard[r].n > 0
         /\ Len(normalOut[r]) = 1 =>
              normalOut[r][1].body \in
                {"dump", "subscribe", "notHijacker", "hijackErr"}

\* One request answered with the timeout document, the other with a reply.
C10_Witness ==
  \E r1, r2 \in Reqs :
    /\ Done(r1) /\ Done(r2)
    /\ rawOut[r1] = <<TimeoutDoc>>
    /\ Len(rawOut[r2]) = 1 /\ rawOut[r2][1] = heard[r2].first
    /\ rawOut[r2][1] # <<>>

\* ------------------------------------------------------------------------
\* C11..C20
\* ------------------------------------------------------------------------

\* The callback was applied in isolation.
Decoded == call.fn = "callback" /\ call.applied

\* The host split was applied in isolation.
SplitDone == call.fn = "split" /\ call.applied

\* C11: for every byte string b, the empty one included, the callback on
\* payload "X-" ++ b leaves exactly b in the reply slot, in a state the
\* handler tells from 'no reply' (a non-empty slot, the only thing the
\* handler tests); on a payload that does not start with "X-" it leaves
\* the slot as it was.
C11_DecodeRoundTrip ==
  Decoded =>
    IF HasPrefix(call.arg, Sigil)
      THEN /\ \A b \in Args : call.arg = Sigil \o b => call.res = b
           /\ Len(call.res) # 0
      ELSE call.res = call.slot

\* C12 as stated: the client name is the text before the first "." of the
\* host, or the whole host when it has no "."; and a host that is empty or
\* starts with "." yields the whole host as the name.
C12_MalformedHostKept ==
  SplitDone =>
    /\ ~Contains(call.arg, Dot) => call.res = call.arg
    /\ Contains(call.arg, Dot) =>
         /\ Len(call.res) < Len(call.arg)
         /\ SubSeq(call.arg, 1, Len(call.res)) = call.res
         /\ call.arg[Len(call.res) + 1] = Dot
         /\ ~Contains(call.res, Dot)
    /\ (call.arg = <<>> \/ call.arg[1] = Dot) => call.res = call.arg

\* C12 as amended: the client name is the text before the first "." of the
\* host, or the whole host when it has no "."; an empty host yields the
\* empty name, and so does a host that starts with ".".
C12_HostSplit ==
  SplitDone =>
    /\ ~Contains(call.arg, Dot) => call.res = call.arg
    /\ Contains(call.arg, Dot) =>
         /\ Len(call.res) < Len(call.arg)
         /\ SubSeq(call.arg, 1, Len(call.res)) = call.res
         /\ call.arg[Len(call.res) + 1] = Dot
         /\ ~Contains(call.res, Dot)
    /\ (call.arg = <<>> \/ call.arg[1] = Dot) => call.res = <<>>

\* The split of a host with two dots and a non-empty first label.
C12_Witness ==
  /\ SplitDone
  /\ call.arg = <<97, 46, 97, 46>>
  /\ call.res = <<97>>

\* The callback was applied in isolation to the handler's own dump.
Echoed == call.fn = "echo" /\ call.applied

\* C15: for every request the handler accepts, whatever its method, the
\* published dump echoed back to the callback while the reply slot is empty
\* leaves the slot empty, so that nothing of it can be relayed.
C15_OwnRequestNotAReply ==
  (Echoed /\ call.slot = <<>>) => call.res = <<>>

\* C13: the publish, the subscribe and the unsubscribe of one request all
\* use the one topic "clients/" ++ name, requests for distinct names share
\* no topic, and a reply published on the topic of one name is never
\* recorded for, nor relayed to the caller of, a request for another name.
C13_OneTopicPerClient ==
  \A r \in Reqs :
    /\ \A t \in used[r] : t = TopicPrefix \o host[r]
    /\ \A q \in Reqs : host[q] # host[r] => used[q] \cap used[r] = {}
    /\ heard[r].from \subseteq {host[r]}
    /\ (Done(r) /\ TookOver(r) /\ rawOut[r] # <<TimeoutDoc>>)
         => heard[r].n > 0

\* Two finished requests for different names: one was relayed the reply
\* published on its topic, the other heard nothing and got the timeout
\* document.
C13_Witness ==
  \E r, q \in Reqs :
    /\ host[r] # host[q]
    /\ Done(r) /\ TookOver(r) /\ Done(q) /\ TookOver(q)
    /\ Cardinality(used[r]) = 1 /\ Cardinality(used[q]) = 1
    /\ heard[r].n = 1 /\ heard[r].first # <<>>
    /\ rawOut[r] = <<heard[r].first>>
    /\ heard[q].n = 0 /\ rawOut[q] = <<TimeoutDoc>>

\* C14: the callback records the first decoded reply: once a (non-empty)
\* reply is recorded, later "X-" messages that arrive before the
\* unsubscribe leave it unchanged, and the caller receives the first
\* reply's bytes.
C14_FirstReplyWins ==
  \A r \in Reqs :
    (heard[r].n >= 1 /\ heard[r].first # <<>>) =>
      /\ pc[r] \in {"wait", "unsubscribe"} => response[r] = heard[r].first
      /\ (Done(r) /\ TookOver(r) /\ outcome[r].unsub = "ok")
           => rawOut[r] = <<heard[r].first>>

\* Invocations r and q are distinct, address the same client name, and are
\* both subscribed and waiting.
WaitingTogether(r, q) ==
  /\ r # q
  /\ host[r] = host[q]
  /\ pc[r] = "wait" /\ pc[q] = "wait"

C17_SubscriptionsIndependent ==
  [][\A r, q \in Reqs :
       (/\ r # q
        /\ pc[r] = "unsubscribe" /\ pc'[r] # "unsubscribe"
        /\ pc[q] = "wait" /\ q \in routes)
         => q \in routes']_vars

\* The wait of r ended with nothing in the reply slot, and r then
\* unsubscribed, took the connection over and returned.
TimedOutAndRelayed(r) ==
  /\ Done(r) /\ TookOver(r)
  /\ outcome[r].wait = "timedOut"
  /\ outcome[r].unsub = "ok"

C19_EarlyReplyLost ==
  \A r \in Reqs :
    /\ Did(r, "Subscribe") => Precedes(r, "Publish", "Subscribe")
    /\ pc[r] \in {"idle", "publish", "subscribe"} =>
         /\ r \notin routes
         /\ heard[r].n = 0
         /\ response[r] = <<>>
    /\ (Done(r) /\ TookOver(r) /\ heard[r].early /\ heard[r].n = 0)
         => rawOut[r] = <<TimeoutDoc>>

\* A request missed an early reply, polled out and sent the timeout
\* document.
C19_Witness ==
  \E r \in Reqs :
    /\ Done(r) /\ TookOver(r)
    /\ heard[r].early /\ heard[r].n = 0
    /\ CountOp(r, "Wait") = 1
    /\ rawOut[r] = <<TimeoutDoc>>

\* C20: the wait loop polls at most 10 times and is left before the 10th
\* poll only with a non-empty reply in the slot; it is left for the
\* unsubscribe; and, every call returning, an invocation that waits goes on
\* to unsubscribe and every invocation that started returns.
C20_Terminates ==
  /\ [][\A r \in Reqs :
          /\ count'[r] <= MaxPolls
          /\ (pc[r] = "wait" /\ pc'[r] # "wait") =>
               /\ pc'[r] = "unsubscribe"
               /\ count[r] < MaxPolls => Len(response[r]) # 0]_vars
  /\ \A r \in Reqs : (pc[r] = "wait") ~> Did(r, "Unsubscribe")
  /\ \A r \in Reqs : (pc[r] # "idle") ~> Done(r)

\* A request left the loop early with a reply, unsubscribed and returned.
C20_Witness ==
  \E r \in Reqs :
    /\ Done(r)
    /\ outcome[r].wait = "fulfilled" /\ heard[r].inBudget
    /\ CountOp(r, "Unsubscribe") = 1

====
